---- MODULE Spec2Model ----
(***************************************************************************)
(* Model of micro-compass (src/src/main.rs): the startup sequence of the   *)
(* LSM303AGR sensor, the steady acquisition loop of `main`, and the pure   *)
(* functions compute_heading, get_cardinal_direction and                   *)
(* display_direction_on_led.                                               *)
(*                                                                         *)
(* Numbers.  Angles and headings are integers in units of 1/Scale degree.  *)
(* The f32 arithmetic of the source is modelled exactly (no rounding), and *)
(* the library functions sqrt, asin, atan2, sin, cos are modelled by their *)
(* mathematical values on inputs where these are exact: the accelerometer  *)
(* samples are axis-aligned vectors (or the zero vector), so the unit      *)
(* gravity components are -1, 0 or 1 and pitch and roll are multiples of   *)
(* 90 degrees.  The last atan2 is a first-octant approximation that is     *)
(* exact at the multiples of 45 degrees.  A float is a record [nan, v]:    *)
(* 0.0/0.0 is NaN, and every comparison with NaN is false.                 *)
(***************************************************************************)
EXTENDS Integers, Sequences, FiniteSets, TLC

\* ------------------------------------------------------------------ bounds
\* Largest magnitude of an accelerometer component (axis-aligned samples).
MaxAccel == 1
\* Largest magnitude of a magnetometer component.
MaxMag == 1
\* Heading resolution: a heading is an integer number of 1/Scale degrees.
Scale == 4
\* The classifier is exercised on headings from -Margin to 360 + Margin degrees.
Margin == 3

VARIABLES
    pc,                 \* position of the task `main`
    startLog,           \* sensor operations performed during startup, in order
    accelFresh,         \* accelerometer status bit: a sample was latched since the last read
    magFresh,           \* magnetometer status bit
    accel,              \* (accel_x, accel_y, accel_z) of this iteration, None before the read
    mag,                \* (mag_x, mag_y, mag_z) of this iteration, None before the read
    heading,            \* `heading` of this iteration
    cardinal_direction, \* `cardinal_direction` of this iteration
    rows,               \* level of the five row pins (TRUE = high)
    cols,               \* level of the five column pins
    iterLog             \* the steps of the current loop iteration, in order

vars == <<pc, startLog, accelFresh, magFresh, accel, mag, heading,
          cardinal_direction, rows, cols, iterLog>>

\* ------------------------------------------------------------------ values
None == <<>>
NoHeading == [unset |-> TRUE]
NoDirection == ""
NaN == [nan |-> TRUE, v |-> 0]
F(v) == [nan |-> FALSE, v |-> v]

Pins == 0..4
AllLow == [i \in Pins |-> FALSE]

\* Samples the accelerometer can return: the zero vector and the axis-aligned ones.
AccelSamples ==
    {<<0, 0, 0>>}
    \cup {<<s * g, 0, 0>> : s \in {-1, 1}, g \in 1..MaxAccel}
    \cup {<<0, s * g, 0>> : s \in {-1, 1}, g \in 1..MaxAccel}
    \cup {<<0, 0, s * g>> : s \in {-1, 1}, g \in 1..MaxAccel}

\* Samples the magnetometer can return.
MagSamples == (-MaxMag..MaxMag) \X (-MaxMag..MaxMag) \X (-MaxMag..MaxMag)

\* ------------------------------------------------------------------ compute_heading
\* f32::sqrt on the perfect squares the samples give.
Sqrt(n) == CHOOSE r \in 0..n : r * r = n

\* asin of -1, 0, 1.
Asin(s) == 90 * Scale * s

\* cos and sin of a multiple of 90 degrees.
Cos(a) ==
    LET m == a % (360 * Scale)
    IN  IF m = 0 THEN 1 ELSE IF m = 180 * Scale THEN -1 ELSE 0

Sin(a) == Cos(a - 90 * Scale)

\* atan2 for 0 <= y <= x, x > 0: atan(t) ~ t * (45 + 15.64 * (1 - t)) degrees.
AtanOctant(y, x) == (Scale * y * (4500 * x + 1564 * (x - y))) \div (100 * x * x)

AtanQuadrant(y, x) ==
    IF x = 0 /\ y = 0 THEN 0
    ELSE IF y <= x THEN AtanOctant(y, x)
    ELSE 90 * Scale - AtanOctant(x, y)

\* y.atan2(x).to_degrees(), in (-180, 180] degrees.
Atan2(y, x) ==
    LET upper(yy) == IF x < 0 THEN 180 * Scale - AtanQuadrant(yy, -x)
                     ELSE AtanQuadrant(yy, x)
    IN  IF y < 0 THEN -upper(-y) ELSE upper(y)

\* Lines 132-146: the heading before normalisation, for a non-zero accel_norm.
RawHeading(a, m) ==
    LET accel_norm == Sqrt(a[1] * a[1] + a[2] * a[2] + a[3] * a[3])
        ax == a[1] \div accel_norm
        ay == a[2] \div accel_norm
        az == a[3] \div accel_norm
        pitch == Asin(-ax)
        roll == Atan2(ay, az)
        mag_xh == m[1] * Cos(roll) + m[2] * Sin(roll) * Sin(pitch) - m[3] * Cos(pitch)
        mag_yh == m[2] * Cos(pitch) + m[3] * Sin(pitch)
    IN  Atan2(mag_yh, mag_xh)

\* Lines 148-151: convert range from -180..180 into 0..360.
\* (NormalizeInclusive: the variant with `heading <= 0.0`.)
NormalizeInclusive(h) == IF h <= 0 THEN h + 360 * Scale ELSE h
Normalize(h) == IF h < 0 THEN h + 360 * Scale ELSE h

\* A zero accel_norm makes ax, ay, az 0.0/0.0 = NaN, which every later
\* operation propagates; `heading < 0.0` is then false and NaN is returned.
compute_heading(a, m) ==
    IF a[1] * a[1] + a[2] * a[2] + a[3] * a[3] = 0 THEN NaN
    ELSE F(Normalize(RawHeading(a, m)))

\* ------------------------------------------------------------------ get_cardinal_direction
Ge(h, d) == ~h.nan /\ h.v >= d * Scale
Lt(h, d) == ~h.nan /\ h.v < d * Scale

\* (get_cardinal_direction_gt: the variant whose East arm reads `h > 45.0`.)
get_cardinal_direction_gt(h) ==
    IF Ge(h, 315) \/ Lt(h, 45) THEN "N"
    ELSE IF (~h.nan /\ h.v > 45 * Scale) /\ Lt(h, 135) THEN "E"
    ELSE IF Ge(h, 135) /\ Lt(h, 225) THEN "S"
    ELSE IF Ge(h, 225) /\ Lt(h, 315) THEN "W"
    ELSE "?"

get_cardinal_direction(h) ==
    IF Ge(h, 315) \/ Lt(h, 45) THEN "N"
    ELSE IF Ge(h, 45) /\ Lt(h, 135) THEN "E"
    ELSE IF Ge(h, 135) /\ Lt(h, 225) THEN "S"
    ELSE IF Ge(h, 225) /\ Lt(h, 315) THEN "W"
    ELSE "?"

\* ------------------------------------------------------------------ display_direction_on_led
\* Lines 173-183: the coordinates of the pattern.
\* (ArrowNoDefault: the variant without the `_` arm.)
ArrowNoDefault(direction) ==
    IF direction = "N" THEN <<<<0, 2>>, <<1, 1>>, <<1, 2>>, <<1, 3>>, <<2, 2>>, <<3, 2>>, <<4, 2>>>>
    ELSE IF direction = "S" THEN <<<<0, 2>>, <<1, 2>>, <<2, 2>>, <<3, 1>>, <<3, 2>>, <<3, 3>>, <<4, 2>>>>
    ELSE IF direction = "E" THEN <<<<2, 0>>, <<2, 1>>, <<2, 2>>, <<2, 3>>, <<2, 4>>, <<1, 3>>, <<3, 3>>>>
    ELSE <<<<2, 0>>, <<1, 1>>, <<3, 1>>, <<2, 1>>, <<2, 2>>, <<2, 3>>, <<2, 4>>>>

Arrow(direction) ==
    IF direction = "N" THEN <<<<0, 2>>, <<1, 1>>, <<1, 2>>, <<1, 3>>, <<2, 2>>, <<3, 2>>, <<4, 2>>>>
    ELSE IF direction = "S" THEN <<<<0, 2>>, <<1, 2>>, <<2, 2>>, <<3, 1>>, <<3, 2>>, <<3, 3>>, <<4, 2>>>>
    ELSE IF direction = "E" THEN <<<<2, 0>>, <<2, 1>>, <<2, 2>>, <<2, 3>>, <<2, 4>>, <<1, 3>>, <<3, 3>>>>
    ELSE IF direction = "W" THEN <<<<2, 0>>, <<1, 1>>, <<3, 1>>, <<2, 1>>, <<2, 2>>, <<2, 3>>, <<2, 4>>>>
    ELSE <<<<2, 2>>, <<2, 2>>, <<2, 2>>, <<2, 2>>, <<2, 2>>, <<2, 2>>, <<2, 2>>>>

\* Lines 185-191: set_low on every pin.
TurnOff(pins) == [i \in Pins |-> FALSE]

\* Lines 193-197: set_high on the pin of each coordinate (k = 1 rows, k = 2 columns).
LightUp(pins, arrow, k) ==
    [i \in Pins |-> pins[i] \/ \E j \in 1..Len(arrow) : arrow[j][k] = i]

\* The cells at the crossing of a high row and a high column.
Lit == {<<r, c>> \in Pins \X Pins : rows[r] /\ cols[c]}

\* ------------------------------------------------------------------ startup (lines 49-82)
HighAccel == [mode |-> "HighResolution", odr |-> 50]
\* (MagConfigHz50: the variant that gives the magnetometer the accelerometer's rate.)
MagConfigHz50 == [mode |-> "HighResolution", odr |-> 50]
HighMag == [mode |-> "HighResolution", odr |-> 10]
NoConfig == [mode |-> "-", odr |-> 0]

Op(name, cfg, ok) == [op |-> name, cfg |-> cfg, ok |-> ok]

\* Result::unwrap: the value on Ok, a panic (panic_probe halts the task) on Err.
\* (UnwrapIgnoringErr: the variant that drops the error.)
UnwrapIgnoringErr(ok, next) == next
Unwrap(ok, next) == IF ok THEN next ELSE "halted"

\* Lines 50-53: both arms of the match only log.
\* (IdentifyUnwrapped: the variant that unwraps the probe's result.)
IdentifyUnwrapped(ok) == Unwrap(ok, "init")
IdentifyNext(ok) == "init"

loopVars == <<accelFresh, magFresh, accel, mag, heading, cardinal_direction,
              rows, cols, iterLog>>

\* Lines 50-53: sensor.magnetometer_id()
Identify ==
    /\ pc = "identify"
    /\ \E ok \in BOOLEAN :
        /\ startLog' = Append(startLog, Op("identify", NoConfig, ok))
        /\ pc' = IdentifyNext(ok)
    /\ UNCHANGED loopVars

\* Line 56: sensor.init().await.unwrap()
Initialize ==
    /\ pc = "init"
    /\ \E ok \in BOOLEAN :
        /\ startLog' = Append(startLog, Op("initialize", NoConfig, ok))
        /\ pc' = Unwrap(ok, "configure_accel")
    /\ UNCHANGED loopVars

\* Lines 59-66: set_accel_mode_and_odr(HighResolution, Hz50).await.unwrap()
ConfigureAccel ==
    /\ pc = "configure_accel"
    /\ \E ok \in BOOLEAN :
        /\ startLog' = Append(startLog, Op("configure_accel", HighAccel, ok))
        /\ pc' = Unwrap(ok, "configure_mag")
    /\ UNCHANGED loopVars

\* Lines 69-76: set_mag_mode_and_odr(HighResolution, Hz10).await.unwrap()
ConfigureMag ==
    /\ pc = "configure_mag"
    /\ \E ok \in BOOLEAN :
        /\ startLog' = Append(startLog, Op("configure_mag", HighMag, ok))
        /\ pc' = Unwrap(ok, "enter_continuous")
    /\ UNCHANGED loopVars

\* Lines 79-81: into_mag_continuous(), panic on Err
EnterContinuous ==
    /\ pc = "enter_continuous"
    /\ \E ok \in BOOLEAN :
        /\ startLog' = Append(startLog, Op("enter_continuous_mode", NoConfig, ok))
        /\ pc' = Unwrap(ok, "enable_lpf")
    /\ UNCHANGED loopVars

\* Line 82: mag_enable_low_pass_filter().await.unwrap()
EnableLowPassFilter ==
    /\ pc = "enable_lpf"
    /\ \E ok \in BOOLEAN :
        /\ startLog' = Append(startLog, Op("enable_low_pass_filter", NoConfig, ok))
        /\ pc' = Unwrap(ok, "loop_head")
    /\ UNCHANGED loopVars

\* ------------------------------------------------------------------ the sensor
Done(name) == \E i \in 1..Len(startLog) : startLog[i].op = name /\ startLog[i].ok

\* The accelerometer samples at its output data rate once it is configured and
\* sets its new-data bit; reading the sample clears the bit.
AccelLatch ==
    /\ Done("configure_accel")
    /\ ~accelFresh
    /\ accelFresh' = TRUE
    /\ UNCHANGED <<pc, startLog, magFresh, accel, mag, heading, cardinal_direction,
                   rows, cols, iterLog>>

\* The magnetometer samples once it is in continuous mode.
MagLatch ==
    /\ Done("enter_continuous_mode")
    /\ ~magFresh
    /\ magFresh' = TRUE
    /\ UNCHANGED <<pc, startLog, accelFresh, accel, mag, heading, cardinal_direction,
                   rows, cols, iterLog>>

\* ------------------------------------------------------------------ the steady loop (lines 84-120)
\* Line 84: a new iteration begins.
LoopHead ==
    /\ pc = "loop_head"
    /\ pc' = "accel_status"
    /\ iterLog' = <<>>
    /\ UNCHANGED <<startLog, accelFresh, magFresh, accel, mag, heading,
                   cardinal_direction, rows, cols>>

\* Lines 86-96: the branch on xyz_new_data(); `continue` goes to the loop head.
\* (AccelBranchAlwaysRead: the variant that ignores the poll.)
AccelBranchAlwaysRead(new) == "acceleration"
\* (AccelBranchInverted: the variant with the two arms exchanged.)
AccelBranchInverted(new) == IF new THEN "loop_head" ELSE "acceleration"
\* (AccelBranchHaltOnStale: the variant that treats a stale poll as fatal.)
AccelBranchHaltOnStale(new) == IF new THEN "acceleration" ELSE "halted"
AccelBranch(new) == IF new THEN "acceleration" ELSE "loop_head"

\* Lines 99-105.
\* (MagBranchFallThrough: the variant without `continue`.)
MagBranchFallThrough(new) == IF new THEN "magnetic_field" ELSE "compute"
MagBranch(new) == IF new THEN "magnetic_field" ELSE "loop_head"

\* Line 119 and the end of the loop body.
\* (AfterDelayRestart: the variant in which the loop encloses the startup.)
AfterDelayRestart == "identify"
AfterDelay == "loop_head"

\* (DropLocalsKeepAccel: the variant whose accelerometer binding is declared
\* outside the loop and outlives the iteration.)
DropLocalsKeepAccel ==
    /\ accel' = accel
    /\ mag' = None
    /\ heading' = NoHeading
    /\ cardinal_direction' = NoDirection

\* The bindings of the loop body go out of scope when the iteration ends.
DropLocals ==
    /\ accel' = None
    /\ mag' = None
    /\ heading' = NoHeading
    /\ cardinal_direction' = NoDirection

\* Line 86: sensor.accel_status().await.unwrap().xyz_new_data()
AccelStatus ==
    /\ pc = "accel_status"
    /\ \E ok \in BOOLEAN :
        IF ok
        THEN /\ pc' = AccelBranch(accelFresh)
             /\ iterLog' = Append(iterLog, IF accelFresh THEN "accel_poll_true"
                                                         ELSE "accel_poll_false")
        ELSE /\ pc' = Unwrap(ok, "acceleration")
             /\ iterLog' = Append(iterLog, "accel_poll_err")
    /\ UNCHANGED <<startLog, accelFresh, magFresh, accel, mag, heading,
                   cardinal_direction, rows, cols>>

\* Lines 87-92: sensor.acceleration().await.unwrap()
AccelerationFrom(samples) ==
    /\ pc = "acceleration"
    /\ \E ok \in BOOLEAN :
        IF ok
        THEN /\ \E v \in samples : accel' = v
             /\ accelFresh' = FALSE
             /\ pc' = "mag_status"
             /\ iterLog' = Append(iterLog, "accel_read")
        ELSE /\ pc' = Unwrap(ok, "mag_status")
             /\ iterLog' = Append(iterLog, "accel_read_err")
             /\ UNCHANGED <<accel, accelFresh>>
    /\ UNCHANGED <<startLog, magFresh, mag, heading, cardinal_direction, rows, cols>>

Acceleration == AccelerationFrom(AccelSamples)

\* Line 99: sensor.mag_status().await.unwrap().xyz_new_data()
MagStatus ==
    /\ pc = "mag_status"
    /\ \E ok \in BOOLEAN :
        IF ok
        THEN /\ pc' = MagBranch(magFresh)
             /\ iterLog' = Append(iterLog, IF magFresh THEN "mag_poll_true"
                                                       ELSE "mag_poll_false")
             /\ IF pc' = "loop_head" THEN DropLocals
                ELSE UNCHANGED <<accel, mag, heading, cardinal_direction>>
        ELSE /\ pc' = Unwrap(ok, "magnetic_field")
             /\ iterLog' = Append(iterLog, "mag_poll_err")
             /\ UNCHANGED <<accel, mag, heading, cardinal_direction>>
    /\ UNCHANGED <<startLog, accelFresh, magFresh, rows, cols>>

\* Lines 100-101: sensor.magnetic_field().await.unwrap()
MagneticFieldFrom(samples) ==
    /\ pc = "magnetic_field"
    /\ \E ok \in BOOLEAN :
        IF ok
        THEN /\ \E v \in samples : mag' = v
             /\ magFresh' = FALSE
             /\ pc' = "compute"
             /\ iterLog' = Append(iterLog, "mag_read")
        ELSE /\ pc' = Unwrap(ok, "compute")
             /\ iterLog' = Append(iterLog, "mag_read_err")
             /\ UNCHANGED <<mag, magFresh>>
    /\ UNCHANGED <<startLog, accelFresh, accel, heading, cardinal_direction, rows, cols>>

MagneticField == MagneticFieldFrom(MagSamples)

\* Line 108.
ComputeHeading ==
    /\ pc = "compute"
    /\ heading' = compute_heading(accel, mag)
    /\ pc' = "classify"
    /\ iterLog' = Append(iterLog, "compute")
    /\ UNCHANGED <<startLog, accelFresh, magFresh, accel, mag, cardinal_direction,
                   rows, cols>>

\* Line 109.
Classify ==
    /\ pc = "classify"
    /\ cardinal_direction' = get_cardinal_direction(heading)
    /\ pc' = "log"
    /\ iterLog' = Append(iterLog, "classify")
    /\ UNCHANGED <<startLog, accelFresh, magFresh, accel, mag, heading, rows, cols>>

\* Lines 110-115: info!("Heading: ...").
LogHeading ==
    /\ pc = "log"
    /\ pc' = "display"
    /\ iterLog' = Append(iterLog, "log")
    /\ UNCHANGED <<startLog, accelFresh, magFresh, accel, mag, heading,
                   cardinal_direction, rows, cols>>

\* (DisplayNorth: the variant that passes a fixed direction to the display.)
DisplayNorth ==
    /\ pc = "display"
    /\ rows' = LightUp(TurnOff(rows), Arrow("N"), 1)
    /\ cols' = LightUp(TurnOff(cols), Arrow("N"), 2)
    /\ pc' = "delay"
    /\ iterLog' = Append(iterLog, "display")
    /\ UNCHANGED <<startLog, accelFresh, magFresh, accel, mag, heading,
                   cardinal_direction>>

\* Line 116 and lines 168-201: display_direction_on_led(rows, cols, cardinal_direction).
Display ==
    /\ pc = "display"
    /\ rows' = LightUp(TurnOff(rows), Arrow(cardinal_direction), 1)
    /\ cols' = LightUp(TurnOff(cols), Arrow(cardinal_direction), 2)
    /\ pc' = "delay"
    /\ iterLog' = Append(iterLog, "display")
    /\ UNCHANGED <<startLog, accelFresh, magFresh, accel, mag, heading,
                   cardinal_direction>>

\* Line 119: Delay.delay_ms(100).await, then the loop body ends.
DelayStep ==
    /\ pc = "delay"
    /\ pc' = AfterDelay
    /\ iterLog' = Append(iterLog, "delay")
    /\ DropLocals
    /\ UNCHANGED <<startLog, accelFresh, magFresh, rows, cols>>

\* ------------------------------------------------------------------ specifications
Init ==
    /\ pc = "identify"
    /\ startLog = <<>>
    /\ accelFresh = FALSE
    /\ magFresh = FALSE
    /\ accel = None
    /\ mag = None
    /\ heading = NoHeading
    /\ cardinal_direction = NoDirection
    /\ rows = AllLow
    /\ cols = AllLow
    /\ iterLog = <<>>

Next ==
    \/ Identify
    \/ Initialize
    \/ ConfigureAccel
    \/ ConfigureMag
    \/ EnterContinuous
    \/ EnableLowPassFilter
    \/ AccelLatch
    \/ MagLatch
    \/ LoopHead
    \/ AccelStatus
    \/ Acceleration
    \/ MagStatus
    \/ MagneticField
    \/ ComputeHeading
    \/ Classify
    \/ LogHeading
    \/ Display
    \/ DelayStep

Spec == Init /\ [][Next]_vars

\* ------------------------------------------------------------------ specifications of the pure functions
\* The startup log of a run in which every operation succeeded.
CompletedStartup ==
    << Op("identify", NoConfig, TRUE), Op("initialize", NoConfig, TRUE),
       Op("configure_accel", HighAccel, TRUE), Op("configure_mag", HighMag, TRUE),
       Op("enter_continuous_mode", NoConfig, TRUE),
       Op("enable_low_pass_filter", NoConfig, TRUE) >>

\* Headings given to get_cardinal_direction: NaN and every multiple of 1/Scale
\* degree from -Margin to 360 + Margin degrees.
HeadingInputs == {NaN} \cup {F(v) : v \in (-Margin * Scale)..((360 + Margin) * Scale)}

\* Direction values given to display_direction_on_led.
DirectionInputs == {"N", "E", "S", "W", "?", "NE", "X"}

InitClassify ==
    /\ pc = "classify"
    /\ startLog = CompletedStartup
    /\ accelFresh = FALSE
    /\ magFresh = FALSE
    /\ accel = None
    /\ mag = None
    /\ heading \in HeadingInputs
    /\ cardinal_direction = NoDirection
    /\ rows = AllLow
    /\ cols = AllLow
    /\ iterLog = <<>>

\* get_cardinal_direction applied to every heading of HeadingInputs.
SpecClassify == InitClassify /\ [][Classify]_vars

InitDisplay ==
    /\ pc = "display"
    /\ startLog = CompletedStartup
    /\ accelFresh = FALSE
    /\ magFresh = FALSE
    /\ accel = None
    /\ mag = None
    /\ heading = NoHeading
    /\ cardinal_direction \in DirectionInputs
    /\ rows \in [Pins -> BOOLEAN]
    /\ cols \in [Pins -> BOOLEAN]
    /\ iterLog = <<>>

\* display_direction_on_led applied to every direction of DirectionInputs, from
\* every level of the row and column pins.
SpecDisplay == InitDisplay /\ [][Display]_vars

\* ------------------------------------------------------------------ claims
Has(log, s) == \E i \in 1..Len(log) : log[i] = s

StartupPcs == {"identify", "init", "configure_accel", "configure_mag",
               "enter_continuous", "enable_lpf"}
LoopPcs == {"loop_head", "accel_status", "acceleration", "mag_status",
            "magnetic_field", "compute", "classify", "log", "display", "delay"}
Cardinals == {"N", "E", "S", "W"}

\* C1: an iteration whose accelerometer poll returned false calls neither
\* read_acceleration nor compute_heading and goes through the inter-sample
\* delay before the next iteration begins.  (The code `continue`s past the
\* delay: TLC refutes this.)
C1_StaleAccelSkipsToDelay ==
    (pc = "loop_head" /\ Has(iterLog, "accel_poll_false")) =>
        /\ ~Has(iterLog, "accel_read")
        /\ ~Has(iterLog, "compute")
        /\ Has(iterLog, "delay")

\* C2: an iteration whose accelerometer was fresh but whose magnetometer poll
\* returned false calls none of read_magnetic_field, compute_heading, the
\* classifier and the display, and goes through the inter-sample delay before
\* the next iteration begins.  (Refuted: `continue` skips the delay.)
C2_StaleMagSkipsToDelay ==
    (pc = "loop_head" /\ Has(iterLog, "mag_poll_false")) =>
        /\ ~Has(iterLog, "mag_read")
        /\ ~Has(iterLog, "compute")
        /\ ~Has(iterLog, "classify")
        /\ ~Has(iterLog, "display")
        /\ Has(iterLog, "delay")

\* C3: compute_heading is only invoked on an accelerometer sample and a
\* magnetometer sample both read in the current iteration, each after its own
\* poll returned true in this iteration.
C3_FreshPair ==
    /\ pc = "compute" =>
        /\ iterLog = <<"accel_poll_true", "accel_read", "mag_poll_true", "mag_read">>
        /\ accel \in AccelSamples
        /\ mag \in MagSamples
    /\ Has(iterLog, "compute") =>
        /\ SubSeq(iterLog, 1, 5) =
              <<"accel_poll_true", "accel_read", "mag_poll_true", "mag_read", "compute">>
        /\ pc \in {"classify", "log", "display", "delay"} =>
              heading = compute_heading(accel, mag)

C3_Witness ==
    /\ pc = "classify"
    /\ accel = <<0, 0, 1>>
    /\ mag = <<0, 1, 0>>
    /\ heading = F(90 * Scale)

\* C4: read_acceleration is only called right after an accelerometer poll that
\* returned true, and read_magnetic_field only right after a magnetometer poll
\* that returned true.
C4_ReadAfterFreshCheck ==
    /\ \A i \in 1..Len(iterLog) :
        /\ iterLog[i] \in {"accel_read", "accel_read_err"} =>
              i > 1 /\ iterLog[i - 1] = "accel_poll_true"
        /\ iterLog[i] \in {"mag_read", "mag_read_err"} =>
              i > 1 /\ iterLog[i - 1] = "mag_poll_true"
    /\ pc = "acceleration" =>
          iterLog # <<>> /\ iterLog[Len(iterLog)] = "accel_poll_true"
    /\ pc = "magnetic_field" =>
          iterLog # <<>> /\ iterLog[Len(iterLog)] = "mag_poll_true"

C4_Witness ==
    /\ Has(iterLog, "accel_read")
    /\ Has(iterLog, "mag_read")

\* C5: the steady loop is entered only after identify, initialize,
\* configure(accelerometer, HighResolution, 50 Hz), configure(magnetometer,
\* HighResolution, 10 Hz), enter_continuous_mode and enable_low_pass_filter
\* were each performed exactly once, in this order, and all but the identity
\* probe succeeded.
C5_StartupOrder ==
    (pc \in LoopPcs \/ iterLog # <<>>) =>
        /\ Len(startLog) = 6
        /\ [i \in 1..6 |-> startLog[i].op] =
              <<"identify", "initialize", "configure_accel", "configure_mag",
                "enter_continuous_mode", "enable_low_pass_filter">>
        /\ startLog[3].cfg = [mode |-> "HighResolution", odr |-> 50]
        /\ startLog[4].cfg = [mode |-> "HighResolution", odr |-> 10]
        /\ \A i \in 2..6 : startLog[i].ok

C5_Witness ==
    /\ pc = "acceleration"
    /\ iterLog = <<"accel_poll_true">>
    /\ startLog = CompletedStartup

\* C6: when initialize, a configure, enter_continuous_mode or
\* enable_low_pass_filter fails, the task halts at that step: no later startup
\* operation is performed and the steady loop never runs (no poll, read,
\* heading or display).
C6_FatalStartup ==
    \A i \in 1..Len(startLog) :
        (startLog[i].op # "identify" /\ ~startLog[i].ok) =>
            /\ i = Len(startLog)
            /\ pc = "halted"
            /\ iterLog = <<>>
            /\ accel = None
            /\ mag = None
            /\ heading = NoHeading
            /\ cardinal_direction = NoDirection
            /\ rows = AllLow
            /\ cols = AllLow

C6_Witness ==
    /\ pc = "halted"
    /\ Len(startLog) = 4
    /\ startLog[4].op = "configure_mag"
    /\ ~startLog[4].ok

\* C7: a failed identity probe is not fatal: startup goes on with initialize,
\* and the task only ever halts for a failure of another operation.
C7_IdentifyNonFatal ==
    (Len(startLog) >= 1 /\ ~startLog[1].ok) =>
        /\ startLog[1].op = "identify"
        /\ pc # "identify"
        /\ Len(startLog) = 1 => pc = "init"
        /\ pc = "halted" =>
              \/ Len(startLog) >= 2 /\ ~startLog[Len(startLog)].ok
              \/ \E e \in {"accel_poll_err", "accel_read_err", "mag_poll_err",
                           "mag_read_err"} : Has(iterLog, e)

C7_Witness ==
    /\ Len(startLog) = 6
    /\ ~startLog[1].ok
    /\ pc = "display"
    /\ cardinal_direction = "E"

\* C8: on a heading in [0, 360) get_cardinal_direction returns N on
\* [315, 360) and [0, 45), E on [45, 135), S on [135, 225) and W on [225, 315):
\* lower bounds inclusive, upper bounds exclusive, no gap and no overlap.
C8_ClassifierPartition ==
    (pc = "log" /\ ~heading.nan /\ heading.v >= 0 /\ heading.v < 360 * Scale) =>
        LET h == heading.v
            d == cardinal_direction
        IN  /\ d \in Cardinals
            /\ d = "N" <=> (h >= 315 * Scale \/ h < 45 * Scale)
            /\ d = "E" <=> (45 * Scale <= h /\ h < 135 * Scale)
            /\ d = "S" <=> (135 * Scale <= h /\ h < 225 * Scale)
            /\ d = "W" <=> (225 * Scale <= h /\ h < 315 * Scale)

C8_Witness ==
    /\ pc = "log"
    /\ heading = F(45 * Scale)
    /\ cardinal_direction = "E"

C10_DisplayFallback ==
    [][(pc = "display" /\ pc' # "display" /\ cardinal_direction \notin Cardinals) =>
          /\ pc' = "delay"
          /\ Lit' = {<<2, 2>>}
          /\ rows' = [i \in Pins |-> i = 2]
          /\ cols' = [i \in Pins |-> i = 2]]_vars

C10_Witness ==
    /\ pc = "delay"
    /\ cardinal_direction = "NE"
    /\ Lit = {<<2, 2>>}

\* The steps of the task inside the steady loop (lines 84-120).
LoopStep ==
    \/ LoopHead
    \/ AccelStatus
    \/ Acceleration
    \/ MagStatus
    \/ MagneticField
    \/ ComputeHeading
    \/ Classify
    \/ LogHeading
    \/ Display
    \/ DelayStep

SensorErrors == {"accel_poll_err", "accel_read_err", "mag_poll_err", "mag_read_err"}

\* C11: once in the steady loop the task only halts for a sensor communication
\* error and is never blocked: at every position of the loop its next step is
\* enabled, also at the end of an iteration that found stale data.
C11_LoopNeverStops ==
    /\ pc \in LoopPcs => ENABLED LoopStep
    /\ (pc = "halted" /\ Len(startLog) = 6 /\ startLog[6].ok) =>
          /\ iterLog # <<>>
          /\ iterLog[Len(iterLog)] \in SensorErrors
    /\ (pc = "loop_head" /\ iterLog # <<>>
            /\ iterLog[Len(iterLog)] \in {"accel_poll_false", "mag_poll_false"}) =>
          ENABLED LoopHead

C11_Witness ==
    /\ pc = "loop_head"
    /\ iterLog = <<"accel_poll_true", "accel_read", "mag_poll_false">>
    /\ ~accelFresh
    /\ ~magFresh
    /\ rows # AllLow
    /\ ENABLED LoopHead

\* The set of the coordinates of a pattern.
Cells(arrow) == {arrow[j] : j \in 1..Len(arrow)}

\* C12: after display_direction_on_led(d), d one of N, E, S, W, the lit cells
\* are exactly the seven distinct cells of d's arrow, whatever was lit before,
\* and every coordinate is within rows 0..4 and columns 0..4.  (Refuted: the
\* code raises the row pin and the column pin of each coordinate, so the lit
\* cells are all crossings of those rows and columns.)
C12_ArrowExactlyLit ==
    (pc = "delay" /\ cardinal_direction \in Cardinals) =>
        /\ Cells(Arrow(cardinal_direction)) \subseteq Pins \X Pins
        /\ Cardinality(Cells(Arrow(cardinal_direction))) = 7
        /\ Lit = Cells(Arrow(cardinal_direction))

\* The acquisition lifecycle of the sensor session, from the startup log.
AcquisitionState ==
    IF pc \in LoopPcs \/ iterLog # <<>> THEN "Sampling"
    ELSE IF Done("enter_continuous_mode") THEN "ContinuousMode"
    ELSE IF Done("configure_mag") THEN "Configured"
    ELSE "Uninitialized"

Rank(st) ==
    IF st = "Uninitialized" THEN 0 ELSE IF st = "Configured" THEN 1
    ELSE IF st = "ContinuousMode" THEN 2 ELSE 3

\* C13: the lifecycle only moves forward, and once the steady loop has started
\* no startup operation is invoked again: the startup log, and with it the
\* continuous mode and the modes of both sub-sensors, never changes.
C13_LifecycleForward ==
    [][/\ Rank(AcquisitionState') >= Rank(AcquisitionState)
       /\ Len(startLog') >= Len(startLog)
       /\ SubSeq(startLog', 1, Len(startLog)) = startLog
       /\ AcquisitionState = "Sampling" =>
            /\ startLog' = startLog
            /\ pc' \notin StartupPcs
            /\ AcquisitionState' = "Sampling"]_vars

C13_Witness ==
    /\ AcquisitionState = "Sampling"
    /\ pc = "loop_head"
    /\ Has(iterLog, "delay")
    /\ startLog[3].cfg = HighAccel
    /\ startLog[4].cfg = HighMag

FullIteration ==
    <<"accel_poll_true", "accel_read", "mag_poll_true", "mag_read",
      "compute", "classify", "log", "display", "delay">>

IsPrefix(s, t) == Len(s) <= Len(t) /\ SubSeq(t, 1, Len(s)) = s

\* C14: an iteration that read both samples runs compute_heading on that pair,
\* get_cardinal_direction on that heading, the log output, the display once
\* with that direction, then the delay, in this order; the display is never
\* invoked in an iteration that computed no heading.
C14_PipelineOrder ==
    /\ Has(iterLog, "mag_read") =>
        /\ IsPrefix(iterLog, FullIteration)
        /\ pc # "halted"
        /\ pc = "loop_head" => iterLog = FullIteration
        /\ Has(iterLog, "compute") /\ pc # "loop_head" =>
              heading = compute_heading(accel, mag)
        /\ Has(iterLog, "classify") /\ pc # "loop_head" =>
              cardinal_direction = get_cardinal_direction(heading)
        /\ pc = "delay" =>
              /\ rows = LightUp(AllLow, Arrow(get_cardinal_direction(heading)), 1)
              /\ cols = LightUp(AllLow, Arrow(get_cardinal_direction(heading)), 2)
    /\ Has(iterLog, "display") =>
        /\ Has(iterLog, "compute")
        /\ Cardinality({i \in 1..Len(iterLog) : iterLog[i] = "display"}) = 1

C14_Witness ==
    /\ pc = "delay"
    /\ iterLog = SubSeq(FullIteration, 1, 8)
    /\ heading = F(180 * Scale)
    /\ cardinal_direction = "S"
    /\ rows = LightUp(AllLow, Arrow("S"), 1)

\* C15: the steady loop never invokes compute_heading with an accelerometer
\* sample of norm zero, (0, 0, 0).  (Refuted: the loop passes on whatever the
\* sensor returned.)
C15_NonDegenerateAccel ==
    (pc = "compute" \/ (Has(iterLog, "compute") /\ pc # "loop_head")) =>
        accel # <<0, 0, 0>>

\* C16: the direction passed to display_direction_on_led is one of N, E, S, W:
\* "?" is never produced from a heading the loop computed, and the center dot
\* is never shown.  (Refuted through the NaN heading of a zero accelerometer
\* sample.)
C16_DisplayedDirectionCardinal ==
    /\ (pc = "display" \/ Has(iterLog, "display")) /\ pc # "loop_head" =>
          cardinal_direction \in Cardinals
    /\ ~(rows = [i \in Pins |-> i = 2] /\ cols = [i \in Pins |-> i = 2])

\* Progress does not depend on the values read: the fair specification reads
\* from a few samples, the level and the zero accelerometer vector and the four
\* horizontal field directions, which give N, E, S, W and "?".
LiveAccelSamples == {<<0, 0, 0>>, <<0, 0, 1>>}
LiveMagSamples == {<<1, 0, 0>>, <<0, 1, 0>>, <<-1, 0, 0>>, <<0, -1, 0>>}

AccelerationLive == AccelerationFrom(LiveAccelSamples)
MagneticFieldLive == MagneticFieldFrom(LiveMagSamples)

TaskStepLive ==
    \/ Identify
    \/ Initialize
    \/ ConfigureAccel
    \/ ConfigureMag
    \/ EnterContinuous
    \/ EnableLowPassFilter
    \/ LoopHead
    \/ AccelStatus
    \/ AccelerationLive
    \/ MagStatus
    \/ MagneticFieldLive
    \/ ComputeHeading
    \/ Classify
    \/ LogHeading
    \/ Display
    \/ DelayStep

NextLive ==
    \/ TaskStepLive
    \/ AccelLatch
    \/ MagLatch

\* The executor always resumes the one task when its await completes, and both
\* sub-sensors keep sampling at their output data rates.
Fairness ==
    /\ WF_vars(TaskStepLive)
    /\ WF_vars(AccelLatch)
    /\ WF_vars(MagLatch)

SpecLive == Init /\ [][NextLive]_vars /\ Fairness

\* C17: unless a sensor operation fails (the task then halts), the steady loop
\* computes a heading and invokes the display infinitely often, given that
\* both sub-sensors keep latching samples and a latched flag stays set until
\* the read; an iteration that found the magnetometer stale does not prevent
\* a later one from pairing fresh samples.
C17_HeadingInfinitelyOften ==
    \/ <>(pc = "halted")
    \/ /\ []<>(pc = "classify")
       /\ []<>(pc = "delay")
       /\ [](Has(iterLog, "mag_poll_false") => <>(pc = "delay" \/ pc = "halted"))

C17_Witness ==
    /\ pc = "delay"
    /\ ~accelFresh
    /\ ~magFresh
    /\ heading = F(90 * Scale)
    /\ cardinal_direction = "E"

\* C18: in an iteration whose accelerometer poll returned true and whose
\* magnetometer poll returned false, read_acceleration was performed before
\* the magnetometer poll and consumed the fresh accelerometer sample, and that
\* sample is discarded: no heading is computed from it in this iteration, and
\* no later iteration starts with it.
C18_AccelSampleDiscarded ==
    /\ [](Has(iterLog, "mag_poll_false") =>
            /\ iterLog = <<"accel_poll_true", "accel_read", "mag_poll_false">>
            /\ pc = "loop_head"
            /\ accel = None)
    /\ [](pc \in {"loop_head", "accel_status", "acceleration"} => accel = None)
    /\ [][/\ (pc = "acceleration" /\ pc' = "mag_status") =>
                accelFresh /\ ~accelFresh' /\ accel' # None
          /\ (pc = "mag_status" /\ pc' = "loop_head") =>
                accel # None /\ accel' = None /\ ~magFresh]_vars

C18_Witness ==
    /\ pc = "loop_head"
    /\ iterLog = <<"accel_poll_true", "accel_read", "mag_poll_false">>
    /\ accel = None
    /\ ~accelFresh

====
